---- MODULE Spec2Model ----
(***************************************************************************)
(* Model of task.py: the assistant bot's address book.                     *)
(*                                                                         *)
(* A Python str is a sequence of one-character strings.  A character that  *)
(* is not ASCII is written by its code point name ("U+00B2").  A raised    *)
(* exception is the exc field of a call's result ("None" when the call     *)
(* returned), and a call that raises leaves in rec/book the state it had   *)
(* reached when the exception left it.                                     *)
(***************************************************************************)
EXTENDS Integers, Sequences, FiniteSets

VARIABLES book, today, last, running

vars == <<book, today, last, running>>

(***************************************************************************)
(* Bounds of the model.                                                    *)
(***************************************************************************)
\* Most phones the records of the book hold together in the model.
MaxPhones == 2

(***************************************************************************)
(* Characters and str methods.                                             *)
(***************************************************************************)
AsciiDigits == {"0", "1", "2", "3", "4", "5", "6", "7", "8", "9"}

\* Characters outside ASCII for which str.isdigit() is True
\* (SUPERSCRIPT TWO, ARABIC-INDIC DIGIT THREE).
UnicodeDigits == {"U+00B2", "U+0663"}

\* str.isdigit(): every character is a digit and there is at least one.
isdigit(s) ==
    /\ Len(s) > 0
    /\ \A i \in 1..Len(s) : s[i] \in AsciiDigits \cup UnicodeDigits

DigitVal(c) ==
    CASE c = "0" -> 0 [] c = "1" -> 1 [] c = "2" -> 2 [] c = "3" -> 3
      [] c = "4" -> 4 [] c = "5" -> 5 [] c = "6" -> 6 [] c = "7" -> 7
      [] c = "8" -> 8 [] c = "9" -> 9

DigitChar(n) ==
    CASE n = 0 -> "0" [] n = 1 -> "1" [] n = 2 -> "2" [] n = 3 -> "3"
      [] n = 4 -> "4" [] n = 5 -> "5" [] n = 6 -> "6" [] n = 7 -> "7"
      [] n = 8 -> "8" [] n = 9 -> "9"

RECURSIVE ToInt(_)
ToInt(s) ==
    IF Len(s) = 0 THEN 0
    ELSE 10 * ToInt(SubSeq(s, 1, Len(s) - 1)) + DigitVal(s[Len(s)])

\* The characters of a Python literal used in a message.
Str(text) == <<text>>

NoneStr == <<>>

(***************************************************************************)
(* Results of calls.                                                       *)
(***************************************************************************)
Returned(rec, ret) == [rec |-> rec, exc |-> "None", msg |-> NoneStr, ret |-> ret]

Raised(rec, exc, msg) == [rec |-> rec, exc |-> exc, msg |-> msg, ret |-> NoneStr]

(***************************************************************************)
(* Phone                                                                   *)
(***************************************************************************)
PhoneLen == 10

\* Phone.__init__ raises ValueError exactly when this is FALSE.
PhoneInitOk(number) == ~ (~ isdigit(number) \/ Len(number) # PhoneLen)

(***************************************************************************)
(* Record: [name, phones, birthday]; birthday is NoneStr when not set.     *)
(***************************************************************************)
RecordInit(name) == [name |-> name, phones |-> <<>>, birthday |-> NoneStr]

\* Record.find_phone: the index of the first phone whose value is number,
\* 0 for None.
find_phone(rec, number) ==
    IF \E i \in 1..Len(rec.phones) : rec.phones[i] = number
    THEN CHOOSE i \in 1..Len(rec.phones) :
            /\ rec.phones[i] = number
            /\ \A j \in 1..(i - 1) : rec.phones[j] # number
    ELSE 0

RemoveAt(s, i) == SubSeq(s, 1, i - 1) \o SubSeq(s, i + 1, Len(s))

\* Record.add_phone
add_phone(rec, number) ==
    IF PhoneInitOk(number)
    THEN Returned([rec EXCEPT !.phones = Append(@, number)], NoneStr)
    ELSE Raised(rec, "ValueError", Str("Phone number must be 10 digits"))

\* Record.remove_phone: the raise is inside the `if phone:` block, after
\* the removal; when the phone is not found the method returns None.
remove_phone(rec, number) ==
    LET phone == find_phone(rec, number) IN
    IF phone # 0
    THEN Raised([rec EXCEPT !.phones = RemoveAt(@, phone)], "ValueError",
                Str("Phone number ") \o number \o Str(" not found"))
    ELSE Returned(rec, NoneStr)

\* Record.edit_phone
edit_phone(rec, old_number, new_number) ==
    LET phone == find_phone(rec, old_number) IN
    IF phone # 0
    THEN LET added == add_phone(rec, new_number) IN
         IF added.exc # "None" THEN added
         ELSE LET removed == remove_phone(added.rec, old_number) IN
              IF removed.exc # "None" THEN removed
              ELSE Returned(removed.rec, Str("phone changed"))
    ELSE Raised(rec, "ValueError",
                Str("Phone number ") \o old_number \o Str(" not found"))

(***************************************************************************)
(* datetime.date: [year, month, day] of the proleptic Gregorian calendar.  *)
(***************************************************************************)
Date(y, m, d) == [year |-> y, month |-> m, day |-> d]

IsLeap(y) == (y % 4 = 0 /\ y % 100 # 0) \/ y % 400 = 0

DaysInMonth(y, m) ==
    IF m = 2 THEN (IF IsLeap(y) THEN 29 ELSE 28)
    ELSE IF m \in {4, 6, 9, 11} THEN 30 ELSE 31

DaysBeforeYear(y) ==
    (y - 1) * 365 + (y - 1) \div 4 - (y - 1) \div 100 + (y - 1) \div 400

RECURSIVE DaysBeforeMonth(_, _)
DaysBeforeMonth(y, m) ==
    IF m = 1 THEN 0 ELSE DaysBeforeMonth(y, m - 1) + DaysInMonth(y, m - 1)

\* date.toordinal(): 1 for 0001-01-01.
toordinal(d) == DaysBeforeYear(d.year) + DaysBeforeMonth(d.year, d.month) + d.day

\* date.weekday(): Monday is 0, Sunday is 6.
weekday(d) == (toordinal(d) + 6) % 7

\* d1 < d2 on dates
DateLess(d1, d2) == toordinal(d1) < toordinal(d2)

\* (d1 - d2).days
DaysBetween(d1, d2) == toordinal(d1) - toordinal(d2)

NextDay(d) ==
    IF d.day < DaysInMonth(d.year, d.month) THEN [d EXCEPT !.day = @ + 1]
    ELSE IF d.month < 12 THEN Date(d.year, d.month + 1, 1)
    ELSE Date(d.year + 1, 1, 1)

\* d + timedelta(days=n), n >= 0
RECURSIVE AddDays(_, _)
AddDays(d, n) == IF n = 0 THEN d ELSE AddDays(NextDay(d), n - 1)

\* date.replace(year=y) raises ValueError exactly when this is FALSE.
ReplaceYearOk(d, y) == d.day <= DaysInMonth(y, d.month)

ReplaceYear(d, y) == [d EXCEPT !.year = y]

(***************************************************************************)
(* datetime.strptime(value, "%d.%m.%Y") and date.strftime("%d.%m.%Y")      *)
(***************************************************************************)
AllAsciiDigits(s) == \A i \in 1..Len(s) : s[i] \in AsciiDigits

DotsOf(s) == {i \in 1..Len(s) : s[i] = "."}

Min(S) == CHOOSE x \in S : \A y \in S : x <= y
Max(S) == CHOOSE x \in S : \A y \in S : y <= x

\* The three fields of the format: %d and %m take one or two digits,
\* %Y takes exactly four.
DayField(s) == SubSeq(s, 1, Min(DotsOf(s)) - 1)
MonthField(s) == SubSeq(s, Min(DotsOf(s)) + 1, Max(DotsOf(s)) - 1)
YearField(s) == SubSeq(s, Max(DotsOf(s)) + 1, Len(s))

\* strptime raises ValueError exactly when this is FALSE.
StrptimeOk(s) ==
    /\ Cardinality(DotsOf(s)) = 2
    /\ Len(DayField(s)) \in {1, 2} /\ AllAsciiDigits(DayField(s))
    /\ Len(MonthField(s)) \in {1, 2} /\ AllAsciiDigits(MonthField(s))
    /\ Len(YearField(s)) = 4 /\ AllAsciiDigits(YearField(s))
    /\ ToInt(YearField(s)) >= 1
    /\ ToInt(MonthField(s)) \in 1..12
    /\ ToInt(DayField(s)) \in 1..DaysInMonth(ToInt(YearField(s)), ToInt(MonthField(s)))

Strptime(s) == Date(ToInt(YearField(s)), ToInt(MonthField(s)), ToInt(DayField(s)))

TwoDigits(n) == <<DigitChar(n \div 10), DigitChar(n % 10)>>

FourDigits(n) ==
    <<DigitChar(n \div 1000), DigitChar((n \div 100) % 10),
      DigitChar((n \div 10) % 10), DigitChar(n % 10)>>

Strftime(d) == TwoDigits(d.day) \o <<".">> \o TwoDigits(d.month) \o <<".">> \o FourDigits(d.year)

(***************************************************************************)
(* Birthday                                                                *)
(***************************************************************************)
\* Birthday.__init__ raises ValueError exactly when this is FALSE: the
\* "future" ValueError is raised inside the try block and replaced by the
\* "format" one.
BirthdayInitOk(value, now) ==
    /\ StrptimeOk(value)
    /\ ~ DateLess(now, Strptime(value))

\* Record.add_birthday: the Birthday keeps the string it was given.
add_birthday(rec, date, now) ==
    IF BirthdayInitOk(date, now)
    THEN Returned([rec EXCEPT !.birthday = date], NoneStr)
    ELSE Raised(rec, "ValueError", Str("Invalid date format. Use DD.MM.YYYY"))

\* Record.show_birthday
show_birthday_of(rec) ==
    IF rec.birthday # NoneStr THEN rec.birthday ELSE Str("No birthday set")

(***************************************************************************)
(* AddressBook: the records in the dict's (insertion) order.               *)
(***************************************************************************)
\* The position of name's record in the book, 0 when there is none.
IndexOf(bk, name) ==
    IF \E i \in 1..Len(bk) : bk[i].name = name
    THEN CHOOSE i \in 1..Len(bk) : bk[i].name = name
    ELSE 0

\* AddressBook.add_record: an existing key keeps its place in the dict.
add_record(bk, record) ==
    IF IndexOf(bk, record.name) # 0
    THEN [bk EXCEPT ![IndexOf(bk, record.name)] = record]
    ELSE Append(bk, record)

\* AddressBook.delete
delete(bk, name) ==
    IF IndexOf(bk, name) # 0
    THEN Returned(RemoveAt(bk, IndexOf(bk, name)), NoneStr)
    ELSE Raised(bk, "ValueError", Str("Contact ") \o name \o Str(" not found"))

\* adjust_for_weekend with the shift counted from 6: a Saturday lands on the
\* Sunday and a Sunday stays.
adjust_for_weekend_from_six(birthday) ==
    IF weekday(birthday) >= 5
    THEN AddDays(birthday, 6 - weekday(birthday))
    ELSE birthday

\* AddressBook.adjust_for_weekend
adjust_for_weekend(birthday) ==
    IF weekday(birthday) >= 5
    THEN AddDays(birthday, 7 - weekday(birthday))
    ELSE birthday

\* The loop body of get_upcoming_birthdays for one record: the exception it
\* raises ("None" when it raises nothing) and the entries it appends.
RollsOver(birthday_date, now) == DateLess(ReplaceYear(birthday_date, now.year), now)

BirthdayThisYear(birthday_date, now) ==
    IF RollsOver(birthday_date, now)
    THEN ReplaceYear(birthday_date, now.year + 1)
    ELSE ReplaceYear(birthday_date, now.year)

InWindow(birthday_this_year, now, days) ==
    /\ 0 <= DaysBetween(birthday_this_year, now)
    /\ DaysBetween(birthday_this_year, now) <= days

UpcomingExc(record, now) ==
    IF record.birthday = NoneStr THEN "None"
    ELSE LET birthday_date == Strptime(record.birthday) IN
         IF ~ ReplaceYearOk(birthday_date, now.year) THEN "ValueError"
         ELSE IF RollsOver(birthday_date, now)
                 /\ ~ ReplaceYearOk(birthday_date, now.year + 1)
              THEN "ValueError"
              ELSE "None"

UpcomingEntries(record, now, days) ==
    IF record.birthday = NoneStr THEN <<>>
    ELSE LET birthday_this_year == BirthdayThisYear(Strptime(record.birthday), now) IN
         IF InWindow(birthday_this_year, now, days)
         THEN << [name |-> record.name,
                  congratulation_date |-> Strftime(adjust_for_weekend(birthday_this_year))] >>
         ELSE <<>>

\* AddressBook.get_upcoming_birthdays(days) with date.today() = now: the
\* list built over the records from position i on, or the exception of the
\* first record that raises one.
RECURSIVE UpcomingFrom(_, _, _, _, _)
UpcomingFrom(bk, i, now, days, upcoming_birthdays) ==
    IF i > Len(bk) THEN Returned(bk, upcoming_birthdays)
    ELSE IF UpcomingExc(bk[i], now) # "None"
         THEN Raised(bk, UpcomingExc(bk[i], now), Str("day is out of range for month"))
         ELSE UpcomingFrom(bk, i + 1, now, days,
                           upcoming_birthdays \o UpcomingEntries(bk[i], now, days))

get_upcoming_birthdays(bk, now, days) == UpcomingFrom(bk, 1, now, days, <<>>)

(***************************************************************************)
(* input_error and the command handlers.  A handler's result is            *)
(* [book, exc, msg, ret]: ret is what it returns, a str or (birthdays) a   *)
(* list of entries.                                                        *)
(***************************************************************************)
RetStr(text) == [kind |-> "str", val |-> text]
RetList(entries) == [kind |-> "list", val |-> entries]
RetNone == [kind |-> "None", val |-> <<>>]

HReturned(bk, ret) == [book |-> bk, exc |-> "None", msg |-> NoneStr, ret |-> ret]
HRaised(bk, exc, msg) == [book |-> bk, exc |-> exc, msg |-> msg, ret |-> RetNone]

\* The exceptions input_error's wrapper catches.
Caught == {"KeyError", "ValueError", "IndexError"}

\* input_error with IndexError left out of the except clause.
input_error_without_index(result) ==
    IF result.exc \in {"KeyError", "ValueError"}
    THEN HReturned(result.book, RetStr(Str("Error: ") \o result.msg))
    ELSE result

\* input_error: a caught exception becomes the returned f"Error: {e}".
input_error(result) ==
    IF result.exc \in Caught
    THEN HReturned(result.book, RetStr(Str("Error: ") \o result.msg))
    ELSE result

\* `a, b = args` and `a, b, c = args` raise ValueError unless len(args) = n.
UnpackMsg(args, n) ==
    IF Len(args) < n
    THEN Str("not enough values to unpack (expected ") \o <<DigitChar(n)>>
         \o Str(", got ") \o <<DigitChar(Len(args))>> \o Str(")")
    ELSE Str("too many values to unpack (expected ") \o <<DigitChar(n)>> \o Str(")")

\* '; '.join(p.value for p in record.phones)
RECURSIVE JoinPhones(_)
JoinPhones(phones) ==
    IF Len(phones) = 0 THEN <<>>
    ELSE IF Len(phones) = 1 THEN phones[1]
    ELSE phones[1] \o Str("; ") \o JoinPhones(Tail(phones))

\* Record.__str__
RecordStr(rec) ==
    Str("Contact name: ") \o rec.name \o Str(", phones: ")
    \o (IF Len(rec.phones) > 0 THEN JoinPhones(rec.phones) ELSE Str("No phones"))
    \o (IF rec.birthday # NoneStr THEN Str(", birthday: ") \o rec.birthday ELSE <<>>)

RECURSIVE JoinRecords(_)
JoinRecords(bk) ==
    IF Len(bk) = 0 THEN <<>>
    ELSE IF Len(bk) = 1 THEN RecordStr(bk[1])
    ELSE RecordStr(bk[1]) \o Str("\n") \o JoinRecords(Tail(bk))

\* add_contact, before input_error wraps it
add_contact_body(args, bk) ==
    IF Len(args) # 2 THEN HRaised(bk, "ValueError", UnpackMsg(args, 2))
    ELSE LET name == args[1]
             phone == args[2]
             bk1 == IF IndexOf(bk, name) = 0 THEN add_record(bk, RecordInit(name)) ELSE bk
             i == IndexOf(bk1, name)
             r == add_phone(bk1[i], phone)
         IN IF r.exc # "None" THEN HRaised([bk1 EXCEPT ![i] = r.rec], r.exc, r.msg)
            ELSE HReturned([bk1 EXCEPT ![i] = r.rec], RetStr(Str("Contact added or updated.")))

add_contact(args, bk) == input_error(add_contact_body(args, bk))

\* change_contact, before input_error wraps it
change_contact_body(args, bk) ==
    IF Len(args) # 3 THEN HRaised(bk, "ValueError", UnpackMsg(args, 3))
    ELSE LET i == IndexOf(bk, args[1]) IN
         IF i # 0
         THEN LET r == edit_phone(bk[i], args[2], args[3]) IN
              IF r.exc # "None" THEN HRaised([bk EXCEPT ![i] = r.rec], r.exc, r.msg)
              ELSE HReturned([bk EXCEPT ![i] = r.rec], RetStr(r.ret))
         ELSE HReturned(bk, RetStr(Str("Contact not found.")))

change_contact(args, bk) == input_error(change_contact_body(args, bk))

\* show_phone, before input_error wraps it
show_phone_body(args, bk) ==
    IF Len(args) = 0 THEN HRaised(bk, "IndexError", Str("list index out of range"))
    ELSE IF IndexOf(bk, args[1]) # 0
         THEN HReturned(bk, RetStr(JoinPhones(bk[IndexOf(bk, args[1])].phones)))
         ELSE HReturned(bk, RetStr(Str("Contact not found.")))

show_phone(args, bk) == input_error(show_phone_body(args, bk))

\* show_all, before input_error wraps it
show_all_body(bk) ==
    IF Len(bk) > 0 THEN HReturned(bk, RetStr(JoinRecords(bk)))
    ELSE HReturned(bk, RetStr(Str("No contacts found.")))

show_all(bk) == input_error(show_all_body(bk))

\* add_birthday (the command handler), before input_error wraps it
add_birthday_body(args, bk, now) ==
    IF Len(args) # 2 THEN HRaised(bk, "ValueError", UnpackMsg(args, 2))
    ELSE LET i == IndexOf(bk, args[1]) IN
         IF i # 0
         THEN LET r == add_birthday(bk[i], args[2], now) IN
              IF r.exc # "None" THEN HRaised([bk EXCEPT ![i] = r.rec], r.exc, r.msg)
              ELSE HReturned([bk EXCEPT ![i] = r.rec],
                             RetStr(Str("Birthday added successfully.")))
         ELSE HReturned(bk, RetStr(Str("Contact not found.")))

add_birthday_cmd(args, bk, now) == input_error(add_birthday_body(args, bk, now))

\* show_birthday (the command handler), before input_error wraps it
show_birthday_body(args, bk) ==
    IF Len(args) = 0 THEN HRaised(bk, "IndexError", Str("list index out of range"))
    ELSE IF IndexOf(bk, args[1]) # 0
         THEN HReturned(bk, RetStr(show_birthday_of(bk[IndexOf(bk, args[1])])))
         ELSE HReturned(bk, RetStr(Str("Contact not found.")))

show_birthday(args, bk) == input_error(show_birthday_body(args, bk))

\* get_upcoming_birthdays' default for days
DefaultDays == 7

\* birthdays, before input_error wraps it
birthdays_body(args, bk, now) ==
    LET r == get_upcoming_birthdays(bk, now, DefaultDays) IN
    IF r.exc # "None" THEN HRaised(bk, r.exc, r.msg)
    ELSE HReturned(bk, RetList(r.ret))

birthdays(args, bk, now) == input_error(birthdays_body(args, bk, now))

(***************************************************************************)
(* parse_input                                                             *)
(***************************************************************************)
\* str.lower() on the letters the model's command words use.
LowerChar(c) ==
    CASE c = "A" -> "a" [] c = "D" -> "d" [] c = "E" -> "e" [] c = "X" -> "x"
      [] c = "I" -> "i" [] c = "T" -> "t" [] OTHER -> c

lower(s) == [i \in 1..Len(s) |-> LowerChar(s[i])]

\* parse_input on the parts user_input.split() gives.
parse_input(parts) ==
    IF Len(parts) = 0 THEN [command |-> <<>>, args |-> <<>>]
    ELSE [command |-> lower(parts[1]), args |-> Tail(parts)]

(***************************************************************************)
(* Inputs of the model.                                                    *)
(***************************************************************************)
Ann == <<"A", "n", "n">>
Bob == <<"B", "o", "b">>
Names == {Ann, Bob}

Phone1 == <<"1", "2", "3", "4", "5", "6", "7", "8", "9", "0">>
Phone2 == <<"0", "9", "8", "7", "6", "5", "4", "3", "2", "1">>
\* ten characters, the last one SUPERSCRIPT TWO
PhoneSuper == <<"1", "2", "3", "4", "5", "6", "7", "8", "9", "U+00B2">>
PhoneLetters == <<"1", "2", "3", "4", "5", "a", "b", "c", "d", "e">>
PhoneShort == <<"1", "2", "3", "4", "5", "6", "7", "8", "9">>
RawPhones == {Phone1, Phone2, PhoneSuper, PhoneLetters, PhoneShort}

\* 15.06.1991, 16.06.2000, 29.02.2020, 02.01.2000, 10.06.1985
Bday1506 == <<"1", "5", ".", "0", "6", ".", "1", "9", "9", "1">>
Bday1606 == <<"1", "6", ".", "0", "6", ".", "2", "0", "0", "0">>
Bday2902 == <<"2", "9", ".", "0", "2", ".", "2", "0", "2", "0">>
Bday0201 == <<"0", "2", ".", "0", "1", ".", "2", "0", "0", "0">>
Bday1006 == <<"1", "0", ".", "0", "6", ".", "1", "9", "8", "5">>
\* 01.01.2030 (in the future), 1990-06-15 (another format)
BdayFuture == <<"0", "1", ".", "0", "1", ".", "2", "0", "3", "0">>
BdayIso == <<"1", "9", "9", "0", "-", "0", "6", "-", "1", "5">>
RawDates == {Bday1506, Bday1606, Bday2902, Bday0201, Bday1006, BdayFuture, BdayIso}

\* The values date.today() takes: Monday 26.02.2024, Monday 10.06.2024,
\* Saturday 28.12.2024.
Todays == {Date(2024, 2, 26), Date(2024, 6, 10), Date(2024, 12, 28)}

\* The values of get_upcoming_birthdays' days parameter.
Windows == {0, 5, 7}

WAdd == <<"a", "d", "d">>
WAddUpper == <<"A", "D", "D">>
WChange == <<"c", "h", "a", "n", "g", "e">>
WPhone == <<"p", "h", "o", "n", "e">>
WAll == <<"a", "l", "l">>
WAddBirthday == <<"a", "d", "d", "-", "b", "i", "r", "t", "h", "d", "a", "y">>
WShowBirthday == <<"s", "h", "o", "w", "-", "b", "i", "r", "t", "h", "d", "a", "y">>
WBirthdays == <<"b", "i", "r", "t", "h", "d", "a", "y", "s">>
WHello == <<"h", "e", "l", "l", "o">>
WExit == <<"e", "x", "i", "t">>
WExitUpper == <<"E", "X", "I", "T">>
WClose == <<"c", "l", "o", "s", "e">>
WRemove == <<"r", "e", "m", "o", "v", "e">>
Words == {WAdd, WAddUpper, WChange, WPhone, WAll, WAddBirthday, WShowBirthday,
          WBirthdays, WHello, WExit, WExitUpper, WClose, WRemove}

\* user_input.split() of the lines the user types: nothing, each word
\* alone, a word and a name, and argument lists of add, change and
\* add-birthday, well formed and not.
Lines ==
    {<<>>}
    \cup {<<w>> : w \in Words}
    \cup {<<w, n>> : w \in {WPhone, WShowBirthday}, n \in Names}
    \cup {<<WAdd, Ann>>, <<WAddUpper, Ann, Phone1>>}
    \cup {<<WAdd, n, p>> : n \in Names, p \in {Phone1, Phone2, PhoneLetters}}
    \cup {<<WChange, n, p, q>> : n \in Names, p \in {Phone1, Phone2},
                                 q \in {Phone2, PhoneLetters}}
    \cup {<<WAddBirthday, Ann, d>> : d \in {Bday1506, BdayFuture}}
    \cup {<<WAddBirthday, Bob, d>> : d \in {Bday2902, BdayIso}}

\* The model's bound on the phones in the book.
RECURSIVE TotalPhones(_)
TotalPhones(bk) ==
    IF Len(bk) = 0 THEN 0 ELSE Len(bk[1].phones) + TotalPhones(Tail(bk))

WithinBounds(bk) == TotalPhones(bk) <= MaxPhones

(***************************************************************************)
(* State: the AddressBook, the clock (date.today()), the last call or      *)
(* command with its outcome and the date it was made on, and whether       *)
(* main's loop is still running.                                           *)
(***************************************************************************)
Outcome(op, args, days, exc, msg, ret) ==
    [op |-> op, args |-> args, days |-> days, now |-> today,
     exc |-> exc, msg |-> msg, ret |-> ret]

\* main() starts with an empty AddressBook.
Init ==
    /\ book = <<>>
    /\ today = Date(2024, 6, 10)
    /\ last = Outcome("start", <<>>, 0, "None", NoneStr, RetNone)
    /\ running = TRUE

\* The clock moves on.
Tick ==
    /\ \E d \in Todays : DateLess(today, d) /\ today' = d
    /\ UNCHANGED <<book, last, running>>

(***************************************************************************)
(* main: one action per branch of the loop.  A handler's exception that    *)
(* input_error does not catch leaves main, and the loop is over.           *)
(***************************************************************************)
Handle(op, args, result) ==
    /\ WithinBounds(result.book)
    /\ book' = result.book
    /\ last' = Outcome(op, args, 0, result.exc, result.msg, result.ret)
    /\ running' = (result.exc = "None")
    /\ UNCHANGED today

Said(op, args, text) ==
    /\ last' = Outcome(op, args, 0, "None", NoneStr, RetStr(text))
    /\ UNCHANGED <<book, today>>

MainEmpty ==
    /\ running
    /\ \E parts \in Lines :
        /\ parse_input(parts).command = <<>>
        /\ Said("continue", parse_input(parts).args, <<>>)
        /\ running' = TRUE

MainExit ==
    /\ running
    /\ \E parts \in Lines :
        /\ parse_input(parts).command \in {WClose, WExit}
        /\ Said("exit", parse_input(parts).args, Str("Good bye!"))
        /\ running' = FALSE

MainHello ==
    /\ running
    /\ \E parts \in Lines :
        /\ parse_input(parts).command = WHello
        /\ Said("hello", parse_input(parts).args, Str("How can I help you?"))
        /\ running' = TRUE

MainAdd ==
    /\ running
    /\ \E parts \in Lines :
        /\ parse_input(parts).command = WAdd
        /\ Handle("add", parse_input(parts).args, add_contact(parse_input(parts).args, book))

MainChange ==
    /\ running
    /\ \E parts \in Lines :
        /\ parse_input(parts).command = WChange
        /\ Handle("change", parse_input(parts).args,
                  change_contact(parse_input(parts).args, book))

MainPhone ==
    /\ running
    /\ \E parts \in Lines :
        /\ parse_input(parts).command = WPhone
        /\ Handle("phone", parse_input(parts).args, show_phone(parse_input(parts).args, book))

MainAll ==
    /\ running
    /\ \E parts \in Lines :
        /\ parse_input(parts).command = WAll
        /\ Handle("all", parse_input(parts).args, show_all(book))

MainAddBirthday ==
    /\ running
    /\ \E parts \in Lines :
        /\ parse_input(parts).command = WAddBirthday
        /\ Handle("add-birthday", parse_input(parts).args,
                  add_birthday_cmd(parse_input(parts).args, book, today))

MainShowBirthday ==
    /\ running
    /\ \E parts \in Lines :
        /\ parse_input(parts).command = WShowBirthday
        /\ Handle("show-birthday", parse_input(parts).args,
                  show_birthday(parse_input(parts).args, book))

MainBirthdays ==
    /\ running
    /\ \E parts \in Lines :
        /\ parse_input(parts).command = WBirthdays
        /\ Handle("birthdays", parse_input(parts).args,
                  birthdays(parse_input(parts).args, book, today))

MainInvalid ==
    /\ running
    /\ \E parts \in Lines :
        /\ parse_input(parts).command \notin
              {<<>>, WClose, WExit, WHello, WAdd, WChange, WPhone, WAll,
               WAddBirthday, WShowBirthday, WBirthdays}
        /\ Said("invalid", parse_input(parts).args, Str("Invalid command."))
        /\ running' = TRUE

Next ==
    \/ Tick
    \/ MainEmpty
    \/ MainExit
    \/ MainHello
    \/ MainAdd
    \/ MainChange
    \/ MainPhone
    \/ MainAll
    \/ MainAddBirthday
    \/ MainShowBirthday
    \/ MainBirthdays
    \/ MainInvalid

Spec == Init /\ [][Next]_vars

(***************************************************************************)
(* The core called directly, Record by Record: the caller sees what each   *)
(* method returns or raises.                                               *)
(***************************************************************************)
Called(op, args, days, r, ret) ==
    /\ last' = Outcome(op, args, days, r.exc, r.msg, ret)
    /\ UNCHANGED running

\* book.add_record(Record(name))
NewRecord ==
    \E name \in Names :
        /\ WithinBounds(add_record(book, RecordInit(name)))
        /\ book' = add_record(book, RecordInit(name))
        /\ Called("add_record", <<name>>, 0, Returned(book, NoneStr), RetNone)
        /\ UNCHANGED today

\* book.find(name).add_phone(number)
RecordAddPhone ==
    \E i \in 1..Len(book), number \in RawPhones :
        LET r == add_phone(book[i], number) IN
        /\ WithinBounds([book EXCEPT ![i] = r.rec])
        /\ book' = [book EXCEPT ![i] = r.rec]
        /\ Called("add_phone", <<book[i].name, number>>, 0, r, RetNone)
        /\ UNCHANGED today

\* book.find(name).remove_phone(number)
RecordRemovePhone ==
    \E i \in 1..Len(book), number \in RawPhones :
        LET r == remove_phone(book[i], number) IN
        /\ book' = [book EXCEPT ![i] = r.rec]
        /\ Called("remove_phone", <<book[i].name, number>>, 0, r, RetNone)
        /\ UNCHANGED today

\* book.find(name).edit_phone(old_number, new_number)
RecordEditPhone ==
    \E i \in 1..Len(book), old_number \in RawPhones, new_number \in RawPhones :
        LET r == edit_phone(book[i], old_number, new_number) IN
        /\ WithinBounds([book EXCEPT ![i] = r.rec])
        /\ book' = [book EXCEPT ![i] = r.rec]
        /\ Called("edit_phone", <<book[i].name, old_number, new_number>>, 0, r,
                  IF r.exc = "None" THEN RetStr(r.ret) ELSE RetNone)
        /\ UNCHANGED today

\* book.find(name).find_phone(number): the Phone found, or None
RecordFindPhone ==
    \E i \in 1..Len(book), number \in RawPhones :
        /\ Called("find_phone", <<book[i].name, number>>, 0, Returned(book[i], NoneStr),
                  IF find_phone(book[i], number) # 0
                  THEN RetStr(book[i].phones[find_phone(book[i], number)])
                  ELSE RetNone)
        /\ UNCHANGED <<book, today>>

NextRecord ==
    \/ NewRecord
    \/ RecordAddPhone
    \/ RecordRemovePhone
    \/ RecordEditPhone
    \/ RecordFindPhone

SpecRecord == Init /\ [][NextRecord]_vars

(***************************************************************************)
(* The core called directly: birthdays and the AddressBook.                *)
(***************************************************************************)
InitBook ==
    /\ book = <<>>
    /\ today \in Todays
    /\ last = Outcome("start", <<>>, 0, "None", NoneStr, RetNone)
    /\ running = TRUE

\* book.find(name).add_birthday(date)
RecordAddBirthday ==
    \E i \in 1..Len(book), date \in RawDates :
        LET r == add_birthday(book[i], date, today) IN
        /\ book' = [book EXCEPT ![i] = r.rec]
        /\ Called("add_birthday", <<book[i].name, date>>, 0, r, RetNone)
        /\ UNCHANGED today

\* book.delete(name)
BookDelete ==
    \E name \in Names :
        LET r == delete(book, name) IN
        /\ book' = r.rec
        /\ Called("delete", <<name>>, 0, r, RetNone)
        /\ UNCHANGED today

\* book.get_upcoming_birthdays(days)
BookGetUpcomingBirthdays ==
    \E days \in Windows :
        LET r == get_upcoming_birthdays(book, today, days) IN
        /\ Called("get_upcoming_birthdays", <<>>, days, r,
                  IF r.exc = "None" THEN RetList(r.ret) ELSE RetNone)
        /\ UNCHANGED <<book, today>>

NextBook ==
    \/ Tick
    \/ NewRecord
    \/ RecordAddBirthday
    \/ BookDelete
    \/ BookGetUpcomingBirthdays

SpecBook == InitBook /\ [][NextBook]_vars

(***************************************************************************)
(* What the specification means by its words, stated apart from the code.  *)
(***************************************************************************)
\* A valid phone number: exactly 10 characters, every one an ASCII digit.
ValidPhone(raw) == Len(raw) = 10 /\ \A i \in 1..Len(raw) : raw[i] \in AsciiDigits

\* The form "Error: <message>" of a returned string.
IsErrorString(ret) == ret.kind = "str" /\ Len(ret.val) > 0 /\ ret.val[1] = "Error: "

\* The record the last direct call was made on, as it was before the call
\* (read in the state the call starts from) and as it is after it.
TargetBefore == book[IndexOf(book, last'.args[1])]
TargetAfter == book'[IndexOf(book', last'.args[1])]

\* The birthday's month and day in year y; 29 February falls back to
\* 1 March in a year that has none.
OccurrenceIn(birthday_date, y) ==
    IF birthday_date.day <= DaysInMonth(y, birthday_date.month)
    THEN Date(y, birthday_date.month, birthday_date.day)
    ELSE Date(y, 3, 1)

\* The next occurrence of a birthday: this year's, or next year's when this
\* year's is strictly before now.
NextOccurrence(birthday_date, now) ==
    IF toordinal(OccurrenceIn(birthday_date, now.year)) < toordinal(now)
    THEN OccurrenceIn(birthday_date, now.year + 1)
    ELSE OccurrenceIn(birthday_date, now.year)

\* The records of bk that qualify for a window of days days, in bk's order.
Qualifies(record, now, days) ==
    /\ record.birthday # NoneStr
    /\ toordinal(NextOccurrence(Strptime(record.birthday), now)) - toordinal(now) \in 0..days

RECURSIVE QualifyingNames(_, _, _)
QualifyingNames(bk, now, days) ==
    IF Len(bk) = 0 THEN <<>>
    ELSE (IF Qualifies(bk[1], now, days) THEN <<bk[1].name>> ELSE <<>>)
         \o QualifyingNames(Tail(bk), now, days)

\* An occurrence moved off the weekend: Saturday by 2 days, Sunday by 1.
OffWeekend(d) ==
    IF weekday(d) = 5 THEN NextDay(NextDay(d))
    ELSE IF weekday(d) = 6 THEN NextDay(d)
    ELSE d

(***************************************************************************)
(* The claims.                                                             *)
(***************************************************************************)

\* C1: remove_phone(number), called on a record that holds number, raises
\* nothing and removes exactly the first phone equal to number: the list is
\* one shorter and the other phones keep their order.
C1_RemovePresentSucceeds ==
    [][ (last'.op = "remove_phone" /\ find_phone(TargetBefore, last'.args[2]) # 0)
        => /\ last'.exc = "None"
           /\ TargetAfter.phones =
                 RemoveAt(TargetBefore.phones, find_phone(TargetBefore, last'.args[2]))
      ]_vars

\* C2: remove_phone(number), called on a record that does not hold number,
\* fails with a not-found error and leaves the phone list as it was.
C2_RemoveAbsentFails ==
    [][ (last'.op = "remove_phone" /\ find_phone(TargetBefore, last'.args[2]) = 0)
        => /\ last'.exc # "None"
           /\ book' = book
      ]_vars

\* C4: edit_phone(old, new) with new not a valid phone number fails and
\* leaves the record's phone list exactly as it was, whether old is in the
\* list or not.
C4_EditInvalidNewUnchanged ==
    [][ (last'.op = "edit_phone" /\ ~ ValidPhone(last'.args[3]))
        => /\ last'.exc # "None"
           /\ TargetAfter.phones = TargetBefore.phones
      ]_vars

\* C9: Phone construction succeeds exactly for the strings of 10 ASCII
\* digits, so every phone stored in every record is such a string.
C9_StoredPhonesValid ==
    /\ \A i \in 1..Len(book) : \A j \in 1..Len(book[i].phones) :
          ValidPhone(book[i].phones[j])
    /\ last.op = "add_phone" => (last.exc = "None" <=> ValidPhone(last.args[2]))

\* C5: get_upcoming_birthdays never fails: whatever the book and the date,
\* it returns a list, also for a birthday on 29 February.
C5_UpcomingNeverFails ==
    last.op = "get_upcoming_birthdays" => (last.exc = "None" /\ last.ret.kind = "list")

\* C6: get_upcoming_birthdays(days) returns one entry for each record whose
\* birthday's next occurrence is 0..days days after today, in the book's
\* order, and no other entry.
C6_UpcomingExactlyQualifying ==
    last.op = "get_upcoming_birthdays"
    => /\ last.ret.kind = "list"
       /\ [k \in 1..Len(last.ret.val) |-> last.ret.val[k].name]
             = QualifyingNames(book, last.now, last.days)

\* C7: the congratulation date of every returned entry is the birthday's
\* next occurrence moved off the weekend (Saturday +2 days, Sunday +1 day,
\* Monday to Friday as it is), so it is never a Saturday nor a Sunday.
C7_WeekendShift ==
    (last.op = "get_upcoming_birthdays" /\ last.ret.kind = "list")
    => \A k \in 1..Len(last.ret.val) :
          LET entry == last.ret.val[k]
              record == book[IndexOf(book, entry.name)]
              occurrence == NextOccurrence(Strptime(record.birthday), last.now)
          IN /\ entry.congratulation_date = Strftime(OffWeekend(occurrence))
             /\ weekday(Strptime(entry.congratulation_date)) \notin {5, 6}

\* C7's case: on Monday 10.06.2024 the birthday 15.06 falls on a Saturday
\* and the entry returned for a window of 7 days says 17.06.2024.
C7_Witness ==
    /\ last.op = "get_upcoming_birthdays"
    /\ last.days = 7
    /\ last.now = Date(2024, 6, 10)
    /\ \E k \in 1..Len(last.ret.val) :
          /\ book[IndexOf(book, last.ret.val[k].name)].birthday = Bday1506
          /\ last.ret.val[k].congratulation_date
                = <<"1", "7", ".", "0", "6", ".", "2", "0", "2", "4">>

\* C3: edit_phone(old, new) with old in the list and new a valid phone
\* number removes one old, adds new and returns its confirmation, so the
\* change command answers with the confirmation and not with "Error: ...".
C3_ChangeReportsSuccess ==
    [][ (/\ last'.op = "change"
         /\ today' = today
         /\ Len(last'.args) = 3
         /\ IndexOf(book, last'.args[1]) # 0
         /\ find_phone(TargetBefore, last'.args[2]) # 0
         /\ ValidPhone(last'.args[3]))
        => /\ last'.ret = RetStr(Str("phone changed"))
           /\ ~ IsErrorString(last'.ret)
           /\ Len(TargetAfter.phones) = Len(TargetBefore.phones)
           /\ find_phone(TargetAfter, last'.args[3]) # 0
      ]_vars

\* What the handler of the last command raised or returned before
\* input_error wrapped it, computed in the state the command starts from.
BodyOfLast ==
    CASE last'.op = "add" -> add_contact_body(last'.args, book)
      [] last'.op = "change" -> change_contact_body(last'.args, book)
      [] last'.op = "phone" -> show_phone_body(last'.args, book)
      [] last'.op = "all" -> show_all_body(book)
      [] last'.op = "add-birthday" -> add_birthday_body(last'.args, book, today)
      [] last'.op = "show-birthday" -> show_birthday_body(last'.args, book)
      [] last'.op = "birthdays" -> birthdays_body(last'.args, book, today)

HandlerOps == {"add", "change", "phone", "all", "add-birthday", "show-birthday", "birthdays"}

\* C8: no command ends the loop but exit and close: an error a handler
\* raises comes back as the string "Error: <message>" and the loop goes
\* on, an unknown command is answered "Invalid command.", and the loop is
\* over only after exit or close.
C8_LoopSurvivesErrors ==
    [][ (today' = today)
        => /\ (last'.op \in HandlerOps /\ BodyOfLast.exc # "None")
                 => /\ last'.ret = RetStr(Str("Error: ") \o BodyOfLast.msg)
                    /\ last'.exc = "None"
                    /\ running'
           /\ last'.op = "invalid"
                 => (last'.ret = RetStr(Str("Invalid command.")) /\ running')
           /\ (running /\ ~ running') => last'.op = "exit"
           /\ last'.exc = "None"
      ]_vars

\* C8's case: a handler has raised (phone without a name: IndexError), the
\* user got the error string and the loop is still running.
C8_Witness ==
    /\ running
    /\ last.op = "phone"
    /\ last.args = <<>>
    /\ last.ret = RetStr(Str("Error: ") \o Str("list index out of range"))

\* C10: an add command that fails on an invalid phone leaves the book as
\* it was: the same names, the same phones, and no new record without
\* phones.
C10_FailedAddUnchanged ==
    [][ (/\ last'.op = "add"
         /\ today' = today
         /\ Len(last'.args) = 2
         /\ ~ ValidPhone(last'.args[2])
         /\ IsErrorString(last'.ret))
        => book' = book
      ]_vars

====
